---- MODULE Spec2Model ----
(***************************************************************************)
(* Model of fin_buddy's store-backed core:                                 *)
(*   app/core/rate_limiter.py     RateLimiter.is_allowed                   *)
(*   app/core/session_manager.py  SessionManager                           *)
(*   app/main.py                  inbound (POST /webhook), handle_message  *)
(* The Redis store, the Prometheus counter and gauge, and the wall clock   *)
(* are the shared state; every caller (request handler, service instance)  *)
(* is a process that runs one operation at a time, one store command per   *)
(* step, so that concurrent callers interleave between store commands.     *)
(***************************************************************************)
EXTENDS Integers, Sequences, FiniteSets, TLC

\* ---------------------------------------------------------------- bounds
MaxTime == 2        \* the clock runs over 0..MaxTime (seconds)
MaxCalls == 3       \* is_allowed calls made in one behaviour
MaxSessionCalls == 2 \* session operations called in one behaviour
MaxLimit == 2       \* the request quota is in 1..MaxLimit
MaxWindow == 2      \* the window length is in 1..MaxWindow (seconds)
MaxDeliveries == 1  \* webhook deliveries received in one behaviour
MaxMessages == 2    \* messages in the envelope of one delivery

\* ------------------------------------------------------ program constants
\* session_manager.py:8, SESSION_TTL = int(os.getenv("SESSION_TTL", "3600")):
\* the deployment's setting, here two seconds so that expiry happens in 0..MaxTime.
SESSION_TTL == 2
\* session_manager.py:51-52, the history cap of add_message.
HistoryCap == 5
\* session_manager.py:62, get_message_history(..., limit: int = 10).
DefaultHistoryLimit == 10

Users == {"u1", "u2"}
Procs == {1, 2}
Messages == {"m1", "m2"}
Stages == {"active"}
HistoryLimits == {0, DefaultHistoryLimit}

NoExpiry == -1

\* ------------------------------------------------------------ the clock
VARIABLES now

\* ---------------------------------------------------- the configuration
\* RATE_LIMIT_REQUESTS and RATE_LIMIT_WINDOW (rate_limiter.py lines 6-7), read
\* from the environment when the module is loaded and the defaults of
\* is_allowed's limit and window (line 15), which every caller here uses.
VARIABLES limit, window

\* ------------------------------------------------------------ the store
VARIABLES
  rate,       \* rate_limit:<user_id>: the sorted set, a set of [member, score]
  rateExp,    \* rate_limit:<user_id>: the instant the key expires, or NoExpiry
  sess,       \* session:<user_id>: the stored payload, or Absent
  sessExp     \* session:<user_id>: the instant the key expires, or NoExpiry

\* ---------------------------------------------------------- the metrics
VARIABLES
  denied,     \* rate_limit_counter.labels(user=...), the denial counter
  gauge       \* active_sessions, the gauge

\* ---------------------------------------------------------- the callers
VARIABLES
  pc,         \* where each process stands in its operation
  frame,      \* the locals of the operation a process is running
  calls       \* operations called so far

\* ------------------------------------------ what the callers were returned
VARIABLES
  rlog,       \* per user, the is_allowed calls in the order their pipeline ran
  slog        \* per user, the session operations in the order they ended

\* ------------------------------------------------ the webhook (app/main.py)
VARIABLES
  State,      \* STATE, the in-memory conversation state: user id -> state or NoState
  req,        \* the delivery inbound is working on: the messages still to handle
  outbox,     \* the messages the messaging platform accepted, in order
  responses   \* what inbound answered to the deliveries, in order

webvars == <<State, req, outbox, responses>>

vars == <<now, limit, window, rate, rateExp, sess, sessExp, denied, gauge, pc, frame, calls, rlog, slog,
          State, req, outbox, responses>>

\* ===================================================== rate_limiter.py
\* str(current_time), the member of the entry (line 22). str is injective on
\* integers, so the decimal string is represented by the integer it prints.
Member(current_time) == current_time

\* ZREMRANGEBYSCORE key 0 max (line 20): the entries with 0 <= score <= max go.
ZRemRangeByScoreSwapped(zset, max) == {e \in zset : ~(max <= e.score /\ e.score <= 0)}
ZRemRangeByScoreExclusive(zset, max) == {e \in zset : ~(0 <= e.score /\ e.score < max)}
ZRemRangeByScore(zset, max) == {e \in zset : ~(0 <= e.score /\ e.score <= max)}

\* ZADD key {member: score} (line 22): a member already there keeps one entry,
\* with the new score.
ZAdd(zset, member, score) ==
  {e \in zset : e.member # member} \cup {[member |-> member, score |-> score]}

\* The pipeline with the entry recorded only when the call is within the quota.
PipelineRecordsAdmitted(zset, current_time, w, storeNow) ==
  LET pruned == ZRemRangeByScore(zset, current_time - w)
      member == Member(current_time)
      isNew  == \A e \in pruned : e.member # member
      within == Cardinality(pruned) < limit
      added  == IF within THEN ZAdd(pruned, member, current_time) ELSE pruned
  IN  [zset    |-> added,
       expire  |-> storeNow + w,
       results |-> <<Cardinality(zset) - Cardinality(pruned),
                     Cardinality(pruned),
                     IF isNew /\ within THEN 1 ELSE 0,
                     1>>]

\* The four queued commands of the pipeline (lines 19-25) and their replies.
\* redis-py's pipeline() is transactional (MULTI/EXEC): the store runs the four
\* commands as one unit. storeNow is the store's clock when EXEC runs.
Pipeline(zset, current_time, w, storeNow) ==
  LET pruned == ZRemRangeByScore(zset, current_time - w)
      member == Member(current_time)
      isNew  == \A e \in pruned : e.member # member
      added  == ZAdd(pruned, member, current_time)
  IN  [zset    |-> added,
       expire  |-> storeNow + w,
       results |-> <<Cardinality(zset) - Cardinality(pruned),
                     Cardinality(pruned),
                     IF isNew THEN 1 ELSE 0,
                     1>>]

\* current_requests = results[1] (line 26): the reply of ZCARD, the second command.
CurrentRequestsReplyOfZAdd(results) == results[3]
CurrentRequests(results) == results[2]

\* if current_requests >= limit (line 28)
OverLimitOffByOne(current_requests, quota) == current_requests + 1 >= quota
OverLimit(current_requests, quota) == current_requests >= quota

\* ================================================== session_manager.py
\* A stored payload, and what json.loads makes of it:
\*   t = "absent"  no key
\*   t = "bad"     a string that is not JSON: json.loads raises
\*   t = "list"    JSON, but not an object
\*   t = "obj"     a JSON object; hist_t tells whether message_history is a
\*                 list, null, or missing; stage "" and times -1 are missing
Val(t, stage, hist_t, hist, created, last) ==
  [t |-> t, stage |-> stage, hist_t |-> hist_t, message_history |-> hist,
   created_at |-> created, last_activity |-> last]
Absent   == Val("absent", "", "missing", <<>>, -1, -1)
BadJson  == Val("bad", "", "missing", <<>>, -1, -1)
JsonList == Val("list", "", "missing", <<>>, -1, -1)
EmptyObj == Val("obj", "", "missing", <<>>, -1, -1)
NullHist == Val("obj", "idle", "null", <<>>, 0, 0)
Stored(stage, hist) == Val("obj", stage, "list", hist, 0, 0)
Record(timestamp, message) == [timestamp |-> timestamp, message |-> message]


\* datetime.utcnow() (lines 29, 30, 38, 46). Line 2 is `import datetime`, which
\* binds the name to the module, and the module has no attribute utcnow (it is
\* a method of the class datetime.datetime): the expression raises
\* AttributeError wherever it is evaluated. value is the instant it would give.
utcnowOfClass(clock) == [raised |-> FALSE, value |-> clock]
utcnow(clock) == [raised |-> TRUE, value |-> clock]

\* json.loads(data) (line 21): raises on a payload that is not JSON.
json_loads(data) == [raised |-> data.t = "bad", session |-> data]

\* The default session (lines 26-31).
NewSession(clock) ==
  LET c == utcnow(clock)
  IN  [raised |-> c.raised,
       session |-> Val("obj", "idle", "list", <<>>, c.value, c.value)]

\* session["last_activity"] = datetime.utcnow().isoformat() (line 38): the right
\* side is evaluated first; the assignment needs a dict.
StampLastActivity(session, clock) ==
  LET c == utcnow(clock)
  IN  [raised |-> c.raised \/ session.t # "obj",
       session |-> [session EXCEPT !.last_activity = c.value]]

\* history[-n:] for n > 0
LastN(h, n) == IF Len(h) <= n THEN h ELSE SubSeq(h, Len(h) - n + 1, Len(h))

\* if len(...) > 5: ... = ...[-5:] (lines 51-52)
Truncate(h) == IF Len(h) > HistoryCap THEN LastN(h, HistoryCap) ELSE h

\* session["message_history"].append({...}) and the truncation (lines 45-52):
\* the subscript needs a dict with the key, append needs a list, and the
\* argument evaluates datetime.utcnow().
AppendMessage(session, message, clock) ==
  LET c == utcnow(clock)
  IN  [raised |-> session.t # "obj" \/ session.hist_t # "list" \/ c.raised,
       session |-> [session EXCEPT !.message_history =
                      Truncate(Append(@, Record(c.value, message)))]]

\* session["stage"] = stage (line 59): needs a dict.
AssignStage(session, stage) ==
  [raised |-> session.t # "obj",
   session |-> [session EXCEPT !.stage = stage]]

\* history = session.get("message_history", []);
\* return history[-limit:] if limit else history (lines 65-66).
\* session.get needs a dict; a missing key gives []; a null value is None, which
\* cannot be sliced (limit truthy) and is returned as it is (limit falsy).
History(session, n) ==
  LET h == IF session.hist_t = "list" THEN session.message_history ELSE <<>>
  IN  [raised |-> session.t # "obj" \/ (session.hist_t = "null" /\ n # 0),
       hist_t |-> IF session.hist_t = "null" THEN "null" ELSE "list",
       hist   |-> IF n # 0 THEN LastN(h, n) ELSE h]

\* key = f"session:{user_id}" (lines 18 and 37): the key of the session within
\* the map of the session prefix.
SessionKey(user_id) == user_id

\* len(self.redis.keys("session:*")) (lines 74-75)
SessionKeys(store) == Cardinality({u \in Users : store[u].t # "absent"})


\* ============================================================ app/main.py
\* A message of a delivery, as inbound reads it (lines 352-368): the sender,
\* the type tag and the payload under the key of that type. The payload "null"
\* is a JSON null where an object is expected.
RiskIds == {"RISK_LOW", "RISK_MED", "RISK_HIGH"}
RiskWords == {"conservative", "balanced", "aggressive"}
CatalogIds == {"T-BILLS", "MMF", "BROAD_ETF", "SMALL_CAP"}
TextBodies == {"hi", "balanced", "what is a bond", "null"}
InteractiveIds == {"RISK_MED", "MMF"}
InboundMessages ==
  {[from |-> u, type |-> "text", payload |-> b] : u \in Users, b \in TextBodies}
  \cup {[from |-> u, type |-> "interactive", payload |-> i] : u \in Users, i \in InteractiveIds}
  \cup {[from |-> u, type |-> y, payload |-> "null"] : u \in Users, y \in {"button", "image", "sticker"}}

\* The body of a delivery: not JSON or not an object (malformed), or the
\* messages found under entry -> changes -> value -> messages, in order.
Envelopes ==
  {[malformed |-> TRUE, messages |-> <<>>]}
  \cup {[malformed |-> FALSE, messages |-> m] :
          m \in UNION {[1..n -> InboundMessages] : n \in 0..MaxMessages}}

\* How a call to another service ends: it returns, it raises before the
\* service acted (connection error, timeout), or the service acted and the
\* reply cannot be read (resp.json() raises, lines 91 and 128).
Outcomes == {"ok", "raise", "late"}

\* STATE[uid] (line 65): no entry, or {"stage", "risk", "last"}.
NoState == [stage |-> "", risk |-> "", last |-> -1]
NoReq == [active |-> FALSE, messages |-> <<>>]

\* JSONResponse({"status": "ok"}) (line 371) and
\* JSONResponse({"status": "error", ...}, status_code=500) (line 374).
OkResponse == [status_code |-> 200, status |-> "ok"]
ErrorResponse == [status_code |-> 500, status |-> "error"]

\* Lines 355-368: text and interactive from the message. "" is None.
Extract(m) ==
  CASE m.type = "text" ->
         [raised |-> m.payload = "null", text |-> m.payload, itype |-> "", reply |-> ""]
    [] m.type = "interactive" ->
         [raised |-> FALSE, text |-> "",
          itype |-> IF m.payload \in RiskIds THEN "button_reply" ELSE "list_reply",
          reply |-> m.payload]
    [] m.type = "button" ->
         [raised |-> FALSE, text |-> "", itype |-> "button_reply", reply |-> m.payload]
    [] m.type = "image" -> [raised |-> FALSE, text |-> "image", itype |-> "", reply |-> ""]
    [] OTHER -> [raised |-> FALSE, text |-> "unknown", itype |-> "", reply |-> ""]

\* get_user_state(uid), lines 213-218
get_user_state(st, uid, clock) ==
  IF st[uid] = NoState
  THEN [st EXCEPT ![uid] = [stage |-> "idle", risk |-> "", last |-> clock]]
  ELSE st

\* set_stage(uid, stage), lines 221-223
set_stage(st, uid, stage, clock) ==
  [st EXCEPT ![uid].stage = stage, ![uid].last = clock]

\* send_text and send_list (lines 81-92, 111-129): one POST to the platform.
Send(to, what, outcome) ==
  [sent   |-> IF outcome = "raise" THEN <<>> ELSE <<[to |-> to, what |-> what]>>,
   raised |-> outcome # "ok"]

\* send_text followed by send_list (lines 239-244 and 301-306).
TextThenList(to, o1, o2) ==
  LET a == Send(to, "text", o1)
      b == Send(to, "list", o2)
  IN  IF a.raised THEN a ELSE [sent |-> a.sent \o b.sent, raised |-> b.raised]

\* send_text(from_id, get_advice(msg)) (lines 310-313): the text-generation
\* call (advice.py lines 32-73) comes first, and its reply must have a choice.
AdviceThenText(to, o1, o2) ==
  IF o1 # "ok" THEN [sent |-> <<>>, raised |-> TRUE] ELSE Send(to, "text", o2)

\* RISK_LOW -> conservative, ... (line 236)
RiskOf(id) ==
  CASE id = "RISK_LOW" -> "conservative"
    [] id = "RISK_MED" -> "balanced"
    [] OTHER -> "aggressive"

\* handle_message(from_id, text, interactive), lines 226-313: the conversation
\* state after it, the messages sent and whether an exception left it.
\* o1 and o2 are the outcomes of the calls to other services, in order.
handle_message(st, from_id, x, o1, o2, clock) ==
  LET st1  == get_user_state(st, from_id, clock)
      msg  == IF x.itype # "" THEN "" ELSE x.text
      Risk(word) == set_stage([st1 EXCEPT ![from_id].risk = word], from_id,
                              "show_opportunities", clock)
      Done(state, r) == [State |-> state, sent |-> r.sent, raised |-> r.raised]
  IN  CASE x.itype = "button_reply" /\ x.reply = "null" ->
             Done(st1, [sent |-> <<>>, raised |-> TRUE])
        [] x.itype = "button_reply" /\ x.reply \in RiskIds ->
             Done(Risk(RiskOf(x.reply)), TextThenList(from_id, o1, o2))
        [] x.itype = "list_reply" /\ x.reply \in CatalogIds ->
             Done(st1, Send(from_id, "text", o1))
        [] msg \in {"start", "menu", "hi", "hello", "hey"} ->
             Done(set_stage(st1, from_id, "risk_start", clock), Send(from_id, "text", o1))
        [] msg \in RiskWords ->
             Done(Risk(msg), TextThenList(from_id, o1, o2))
        [] OTHER ->
             Done(st1, AdviceThenText(from_id, o1, o2))


\* ============================================================ the state
SessionOps == {"get_session", "add_message", "set_stage", "get_message_history"}

\* The locals of a process that runs nothing.
IdleFrame ==
  [op |-> "none", uid |-> "u1", arg |-> "", limit |-> 0,
   current_time |-> 0, session |-> Absent, phase |-> "none", keys |-> 0,
   found |-> FALSE, tget |-> -1, sfail |-> FALSE, alone |-> TRUE]

\* What the store may hold for a user when the service starts: nothing, a
\* session written before (the store outlives the process), or a payload the
\* service cannot read.
InitPayloads ==
  {Absent, BadJson, JsonList, EmptyObj, NullHist,
   Stored("idle", <<Record(0, "m1"), Record(0, "m2")>>)}

\* The state when the service starts, but for the configuration and the
\* sessions the store holds.
InitBut ==
  /\ now = 0
  /\ rate = [u \in Users |-> {}]
  /\ rateExp = [u \in Users |-> NoExpiry]
  /\ sessExp = [u \in Users |-> IF sess[u].t = "absent" THEN NoExpiry ELSE SESSION_TTL]
  /\ denied = [u \in Users |-> 0]
  /\ gauge = 0
  /\ pc = [p \in Procs |-> "idle"]
  /\ frame = [p \in Procs |-> IdleFrame]
  /\ calls = 0
  /\ rlog = [u \in Users |-> <<>>]
  /\ slog = [u \in Users |-> <<>>]
  /\ State = [u \in Users |-> NoState]
  /\ req = NoReq
  /\ outbox = <<>>
  /\ responses = <<>>

\* An empty store, under any configuration of the rate limiter.
InitEmpty ==
  /\ limit \in 1..MaxLimit
  /\ window \in 1..MaxWindow
  /\ sess = [u \in Users |-> Absent]
  /\ InitBut

\* A store that holds at most the session key of one user, under one
\* configuration of the rate limiter.
InitStored ==
  /\ limit = MaxLimit
  /\ window = MaxWindow
  /\ sess \in {s \in [Users -> InitPayloads] : \A u \in Users \ {"u1"} : s[u] = Absent}
  /\ InitBut

\* The callers are interchangeable: a call is taken by the first idle one.
FirstIdle(p) == pc[p] = "idle" /\ \A q \in Procs : q < p => pc[q] # "idle"

\* ------------------------------------------------------------ the clock
\* A second passes; the store drops the keys whose time to live has run out.
\* The clock of the callers (time.time(), datetime) and the clock of the store
\* are one clock, read in whole seconds.
Expired(deadline, clock) == deadline # NoExpiry /\ deadline <= clock

Tick ==
  /\ now < MaxTime
  /\ now' = now + 1
  /\ rate' = [u \in Users |-> IF Expired(rateExp[u], now + 1) THEN {} ELSE rate[u]]
  /\ rateExp' = [u \in Users |-> IF Expired(rateExp[u], now + 1) THEN NoExpiry ELSE rateExp[u]]
  /\ sess' = [u \in Users |-> IF Expired(sessExp[u], now + 1) THEN Absent ELSE sess[u]]
  /\ sessExp' = [u \in Users |-> IF Expired(sessExp[u], now + 1) THEN NoExpiry ELSE sessExp[u]]
  /\ UNCHANGED <<limit, window, denied, gauge, pc, frame, calls, rlog, slog>>
  /\ UNCHANGED webvars

\* ===================================================== RateLimiter.is_allowed
\* Lines 15-17: the key and current_time = int(time.time()).
CallIsAllowed(p, u) ==
  /\ FirstIdle(p)
  /\ calls < MaxCalls
  /\ calls' = calls + 1
  /\ pc' = [pc EXCEPT ![p] = "pipeline"]
  /\ frame' = [frame EXCEPT ![p] = [IdleFrame EXCEPT !.op = "is_allowed", !.uid = u,
                 !.current_time = now]]
  /\ UNCHANGED <<now, limit, window, rate, rateExp, sess, sessExp, denied, gauge, rlog, slog>>
  /\ UNCHANGED webvars

\* One is_allowed call as its caller saw it.
RateEntry(f, texec, pre, count, kind, result) ==
  [t |-> f.current_time, texec |-> texec, pre |-> pre, count |-> count, kind |-> kind, result |-> result]

\* key = f"rate_limit:{user_id}" (line 16). The store is two maps, one for
\* each prefix; the key of the rate window within its map is the user id.
RateKeyShared(user_id) == "u1"
RateKey(user_id) == user_id

\* rate_limit_counter.labels(user=user_id).inc() (line 29)
IncUnlabelled(counter, user_id) == [v \in DOMAIN counter |-> counter[v] + 1]
Inc(counter, user_id) == [counter EXCEPT ![user_id] = @ + 1]

\* ExecPipeline with the store error caught and counted as a denial.
ExecPipelineCountsFailure(p) ==
  /\ pc[p] = "pipeline"
  /\ \E fail \in BOOLEAN :
       LET f    == frame[p]
           u    == f.uid
           key  == RateKey(u)
           r    == Pipeline(rate[key], f.current_time, window, now)
           cur  == CurrentRequests(r.results)
           over == OverLimit(cur, limit)
       IN  IF fail
           THEN /\ rlog' = [rlog EXCEPT ![u] =
                      Append(@, RateEntry(f, now, Cardinality(rate[key]), 0, "raise", FALSE))]
                /\ denied' = Inc(denied, u)
                /\ UNCHANGED <<rate, rateExp>>
           ELSE /\ rate' = [rate EXCEPT ![key] = r.zset]
                /\ rateExp' = [rateExp EXCEPT ![key] = r.expire]
                /\ denied' = IF over THEN Inc(denied, u) ELSE denied
                /\ rlog' = [rlog EXCEPT ![u] =
                      Append(@, RateEntry(f, now, Cardinality(rate[key]), cur, "ok", ~over))]
  /\ pc' = [pc EXCEPT ![p] = "idle"]
  /\ frame' = [frame EXCEPT ![p] = IdleFrame]
  /\ UNCHANGED <<now, limit, window, sess, sessExp, gauge, calls, slog>>
  /\ UNCHANGED webvars

\* Lines 19-32: pipeline.execute(), the decision, the denial counter. When the
\* store cannot be reached no command runs, execute() raises and the call ends
\* with the error.
ExecPipeline(p) ==
  /\ pc[p] = "pipeline"
  /\ \E fail \in BOOLEAN :
       LET f    == frame[p]
           u    == f.uid
           key  == RateKey(u)
           r    == Pipeline(rate[key], f.current_time, window, now)
           cur  == CurrentRequests(r.results)
           over == OverLimit(cur, limit)
       IN  IF fail
           THEN /\ rlog' = [rlog EXCEPT ![u] =
                      Append(@, RateEntry(f, now, Cardinality(rate[key]), 0, "raise", FALSE))]
                /\ UNCHANGED <<rate, rateExp, denied>>
           ELSE /\ rate' = [rate EXCEPT ![key] = r.zset]
                /\ rateExp' = [rateExp EXCEPT ![key] = r.expire]
                /\ denied' = IF over THEN Inc(denied, u) ELSE denied
                /\ rlog' = [rlog EXCEPT ![u] =
                      Append(@, RateEntry(f, now, Cardinality(rate[key]), cur, "ok", ~over))]
  /\ pc' = [pc EXCEPT ![p] = "idle"]
  /\ frame' = [frame EXCEPT ![p] = IdleFrame]
  /\ UNCHANGED <<now, limit, window, sess, sessExp, gauge, calls, slog>>
  /\ UNCHANGED webvars


\* ============================================================ SessionManager
\* A process p is inside a session operation on user u.
InSession(p, u) == pc[p] # "idle" /\ frame[p].op \in SessionOps /\ frame[p].uid = u

\* Entering a session operation: the locals, and the note, on both sides, of
\* whether another caller is inside an operation on the same user.
Enter(p, u, op, arg, n, session, start) ==
  /\ calls < MaxSessionCalls
  /\ calls' = calls + 1
  /\ pc' = [pc EXCEPT ![p] = start]
  /\ frame' = [q \in Procs |->
       IF q = p
       THEN [IdleFrame EXCEPT !.op = op, !.uid = u, !.arg = arg, !.limit = n,
               !.session = session, !.phase = "get",
               !.alone = \A o \in Procs \ {p} : ~InSession(o, u)]
       ELSE IF InSession(q, u) THEN [frame[q] EXCEPT !.alone = FALSE] ELSE frame[q]]
  /\ UNCHANGED <<now, limit, window, rate, rateExp, sess, sessExp, denied, gauge, rlog, slog>>
  /\ UNCHANGED webvars

\* get_session(user_id), lines 17-18
CallGetSession(p, u) ==
  /\ FirstIdle(p)
  /\ Enter(p, u, "get_session", "", 0, Absent, "get")

\* add_message(user_id, message), lines 43-44
CallAddMessage(p, u, message) ==
  /\ FirstIdle(p)
  /\ Enter(p, u, "add_message", message, 0, Absent, "get")

\* set_stage(user_id, stage), lines 57-58
CallSetStage(p, u, stage) ==
  /\ FirstIdle(p)
  /\ Enter(p, u, "set_stage", stage, 0, Absent, "get")

\* get_message_history(user_id, limit), lines 62-64
CallGetMessageHistory(p, u, n) ==
  /\ FirstIdle(p)
  /\ Enter(p, u, "get_message_history", "", n, Absent, "get")

\* One session operation as its caller saw it: kind "ok" with what was
\* returned (the session, or the history and whether it is a list or None),
\* or kind "raise"; found and tget tell whether and when redis.get gave a
\* payload, loaded is the session the operation worked on.
SessionEntry(f, kind, session, hist_t, hist) ==
  [op |-> f.op, arg |-> f.arg, limit |-> f.limit, tget |-> f.tget,
   found |-> f.found, loaded |-> f.session, sfail |-> f.sfail, alone |-> f.alone,
   kind |-> kind, session |-> session, hist_t |-> hist_t, hist |-> hist]

\* The operation of p ends.
Finish(p, f, kind, session, hist_t, hist) ==
  /\ pc' = [pc EXCEPT ![p] = "idle"]
  /\ frame' = [frame EXCEPT ![p] = IdleFrame]
  /\ slog' = [slog EXCEPT ![f.uid] = Append(@, SessionEntry(f, kind, session, hist_t, hist))]

\* The operation of p goes on at `next` with locals f.
Goto(p, f, next) ==
  /\ pc' = [pc EXCEPT ![p] = next]
  /\ frame' = [frame EXCEPT ![p] = f]
  /\ UNCHANGED slog

\* An exception leaves the operation: get_message_history catches it, logs and
\* returns [] (lines 67-69); every other operation lets it reach its caller.
Raise(p, f) ==
  IF f.op = "get_message_history"
  THEN Finish(p, f, "ok", Absent, "list", <<>>)
  ELSE Finish(p, f, "raise", Absent, "none", <<>>)

\* get_session returned `f.session` to the operation that called it.
AfterGetSession(p, f) ==
  CASE f.op = "get_session" -> Finish(p, f, "ok", f.session, "none", <<>>)
    [] f.op = "get_message_history" ->
         LET h == History(f.session, f.limit)
         IN  IF h.raised THEN Raise(p, f)
             ELSE Finish(p, f, "ok", Absent, h.hist_t, h.hist)
    [] OTHER -> Goto(p, [f EXCEPT !.phase = "save"], "save")

\* _update_active_sessions returned: inside get_session the session is
\* returned (lines 22-23, 32-33); after the operation's own save_session the
\* operation is over (lines 40, 54, 60).
AfterUpdate(p, f) ==
  IF f.phase = "get" THEN AfterGetSession(p, f)
  ELSE Finish(p, f, "ok", Absent, "none", <<>>)

\* Lines 18-21 and 26-32: data = self.redis.get(key); a payload is parsed and
\* the gauge refresh follows; without one the default session is built and
\* saved.
RedisGet(p) ==
  /\ pc[p] = "get"
  /\ \E fail \in BOOLEAN :
       LET f    == frame[p]
           data == sess[SessionKey(f.uid)]
       IN  IF fail THEN Raise(p, [f EXCEPT !.sfail = TRUE])
           ELSE IF data.t # "absent"
           THEN LET loaded == json_loads(data)
                    g == [f EXCEPT !.found = TRUE, !.tget = now]
                IN  IF loaded.raised THEN Raise(p, g)
                    ELSE Goto(p, [g EXCEPT !.session = loaded.session], "keys")
           ELSE LET created == NewSession(now)
                    g == [f EXCEPT !.tget = now]
                IN  IF created.raised THEN Raise(p, g)
                    ELSE Goto(p, [g EXCEPT !.session = created.session], "save")
  /\ UNCHANGED <<now, limit, window, rate, rateExp, sess, sessExp, denied, gauge, calls, rlog>>
  /\ UNCHANGED webvars

\* The statements of the operation between get_session and save_session
\* (lines 45-52 of add_message, line 59 of set_stage), then save_session:
\* lines 37-39, the stamp and SETEX key SESSION_TTL json.dumps(session).
\* get_session returns the session it saved; an update returns nothing, and
\* its frame keeps the session as get_session gave it.
SaveSession(p) ==
  /\ pc[p] = "save"
  /\ \E fail \in BOOLEAN :
       LET f == frame[p]
           own == f.phase = "save"
           changed ==
             CASE own /\ f.op = "add_message" -> AppendMessage(f.session, f.arg, now)
               [] own /\ f.op = "set_stage" -> AssignStage(f.session, f.arg)
               [] OTHER -> [raised |-> FALSE, session |-> f.session]
           stamped == StampLastActivity(changed.session, now)
       IN  IF changed.raised \/ stamped.raised
           THEN /\ Raise(p, f)
                /\ UNCHANGED <<sess, sessExp>>
           ELSE IF fail
           THEN /\ Raise(p, [f EXCEPT !.sfail = TRUE])
                /\ UNCHANGED <<sess, sessExp>>
           ELSE /\ sess' = [sess EXCEPT ![SessionKey(f.uid)] = stamped.session]
                /\ sessExp' = [sessExp EXCEPT ![SessionKey(f.uid)] = now + SESSION_TTL]
                /\ Goto(p, [f EXCEPT !.session = IF own THEN f.session ELSE stamped.session], "keys")
  /\ UNCHANGED <<now, limit, window, rate, rateExp, denied, gauge, calls, rlog>>
  /\ UNCHANGED webvars

\* Line 74: keys = self.redis.keys("session:*"); a failure is logged and
\* swallowed (lines 76-77).
RedisKeys(p) ==
  /\ pc[p] = "keys"
  /\ \E fail \in BOOLEAN :
       LET f == frame[p]
       IN  IF fail THEN AfterUpdate(p, [f EXCEPT !.sfail = TRUE])
           ELSE Goto(p, [f EXCEPT !.keys = SessionKeys(sess)], "gauge")
  /\ UNCHANGED <<now, limit, window, rate, rateExp, sess, sessExp, denied, gauge, calls, rlog>>
  /\ UNCHANGED webvars

\* Line 75: self.active_sessions.set(len(keys))
GaugeSet(p) ==
  /\ pc[p] = "gauge"
  /\ gauge' = frame[p].keys
  /\ AfterUpdate(p, frame[p])
  /\ UNCHANGED <<now, limit, window, rate, rateExp, sess, sessExp, denied, calls, rlog>>
  /\ UNCHANGED webvars


\* ====================================================== POST /webhook
\* Lines 341-343: a delivery arrives and its body is parsed. The handler runs
\* to its end without yielding (every call after request.json() blocks), so
\* one delivery is worked on at a time.
InboundJson(envelope) ==
  /\ ~req.active
  /\ Len(responses) < MaxDeliveries
  /\ IF envelope.malformed
     THEN /\ responses' = Append(responses, ErrorResponse)
          /\ UNCHANGED req
     ELSE /\ req' = [active |-> TRUE, messages |-> envelope.messages]
          /\ UNCHANGED responses
  /\ UNCHANGED <<now, limit, window, rate, rateExp, sess, sessExp, denied, gauge, pc, frame, calls, rlog, slog>>
  /\ UNCHANGED <<State, outbox>>

\* Lines 351-370 for the next message, with handle_message; an exception
\* leaves the loops and is answered in the except clause (lines 372-374).
HandleMessage ==
  /\ req.active
  /\ req.messages # <<>>
  /\ \E o1 \in Outcomes, o2 \in Outcomes :
       LET m == Head(req.messages)
           x == Extract(m)
           h == handle_message(State, m.from, x, o1, o2, now)
       IN  IF x.raised
           THEN /\ responses' = Append(responses, ErrorResponse)
                /\ req' = NoReq
                /\ UNCHANGED <<State, outbox>>
           ELSE /\ State' = h.State
                /\ outbox' = outbox \o h.sent
                /\ IF h.raised
                   THEN /\ responses' = Append(responses, ErrorResponse)
                        /\ req' = NoReq
                   ELSE /\ req' = [req EXCEPT !.messages = Tail(@)]
                        /\ UNCHANGED responses
  /\ UNCHANGED <<now, limit, window, rate, rateExp, sess, sessExp, denied, gauge, pc, frame, calls, rlog, slog>>

\* Line 371: every message is handled, the delivery is acknowledged.
Acknowledge ==
  /\ req.active
  /\ req.messages = <<>>
  /\ responses' = Append(responses, OkResponse)
  /\ req' = NoReq
  /\ UNCHANGED <<now, limit, window, rate, rateExp, sess, sessExp, denied, gauge, pc, frame, calls, rlog, slog>>
  /\ UNCHANGED <<State, outbox>>

\* ======================================================= the specification
\* The rate limiter and its callers.
NextRate ==
  \/ Tick
  \/ \E p \in Procs, u \in Users : CallIsAllowed(p, u)
  \/ \E p \in Procs : ExecPipeline(p)

\* The session manager and its callers.
NextSession ==
  \/ Tick
  \/ \E p \in Procs, u \in Users : CallGetSession(p, u)
  \/ \E p \in Procs, u \in Users, message \in Messages : CallAddMessage(p, u, message)
  \/ \E p \in Procs, u \in Users, stage \in Stages : CallSetStage(p, u, stage)
  \/ \E p \in Procs, u \in Users, n \in HistoryLimits : CallGetMessageHistory(p, u, n)
  \/ \E p \in Procs : RedisGet(p)
  \/ \E p \in Procs : SaveSession(p)
  \/ \E p \in Procs : RedisKeys(p)
  \/ \E p \in Procs : GaugeSet(p)

\* The webhook endpoint and the platform that calls it.
NextWebhook ==
  \/ Tick
  \/ \E envelope \in Envelopes : InboundJson(envelope)
  \/ HandleMessage
  \/ Acknowledge

\* The store-backed components.
NextCore == NextRate \/ NextSession

\* The two components share the store and the clock and never call each
\* other, and the webhook calls neither: SpecRate, SpecSession and SpecWebhook
\* run each with its callers, SpecCore the two components, Spec everything.
Init == InitStored
Next == NextCore \/ NextWebhook

SpecRate == InitEmpty /\ [][NextRate]_vars
SpecSession == InitStored /\ [][NextSession]_vars
SpecWebhook == InitEmpty /\ [][NextWebhook]_vars
SpecCore == Init /\ [][NextCore]_vars
Spec == Init /\ [][Next]_vars


\* ================================================================ claims
\* ---------------------------------------------------------- rate limiter
\* The calls of rlog[u] from i to j all ran, each with no time between
\* reading the clock and running its pipeline, at the clock value of call i.
SameInstant(u, i, j) ==
  \A k \in i..j : /\ rlog[u][k].kind = "ok"
                  /\ rlog[u][k].t = rlog[u][i].t
                  /\ rlog[u][k].texec = rlog[u][i].t

\* C1: when limit+1 is_allowed calls are made for a user at one clock value,
\* the first of them on an empty rate window, the (limit+1)-th returns false.
C1_LimitPlusOneDenied ==
  \A u \in Users : \A i \in 1..Len(rlog[u]) :
    (/\ i + limit <= Len(rlog[u])
     /\ rlog[u][i].pre = 0
     /\ SameInstant(u, i, i + limit))
    => rlog[u][i + limit].result = FALSE

\* C2: starting from an empty rate window, each of the first `limit`
\* is_allowed calls made for a user returns true, at whatever clock values the
\* calls are made (so also when they all fall within `window` seconds).
C2_FirstLimitCallsAdmitted ==
  \A u \in Users : \A k \in 1..Len(rlog[u]) :
    (k <= limit /\ rlog[u][k].kind = "ok") => rlog[u][k].result = TRUE

\* C2's case: a quota of two, and the second call of a user admitted.
C2_Witness ==
  \E u \in Users :
    /\ limit = 2
    /\ Len(rlog[u]) >= 2
    /\ rlog[u][1].kind = "ok" /\ rlog[u][1].result = TRUE
    /\ rlog[u][2].kind = "ok" /\ rlog[u][2].result = TRUE

\* C3: when more than `window` seconds lie between the end of one is_allowed
\* call of a user and the next call of that user, the next call returns true,
\* whatever was returned before.
C3_AdmittedAfterWindow ==
  \A u \in Users : \A k \in 2..Len(rlog[u]) :
    (/\ rlog[u][k].kind = "ok"
     /\ rlog[u][k].t - rlog[u][k - 1].texec > window)
    => rlog[u][k].result = TRUE

\* C3's case: a call is denied, more than `window` seconds pass, and the next
\* call is admitted.
C3_Witness ==
  \E u \in Users : \E k \in 2..Len(rlog[u]) :
    /\ rlog[u][k - 1].kind = "ok" /\ rlog[u][k - 1].result = FALSE
    /\ rlog[u][k].kind = "ok" /\ rlog[u][k].result = TRUE
    /\ rlog[u][k].t - rlog[u][k - 1].texec > window

\* The admitted calls of user u that read the clock and ran their pipeline at
\* one instant, in the trailing window (t - window, t].
AdmittedIn(u, t) ==
  {k \in 1..Len(rlog[u]) :
     /\ rlog[u][k].kind = "ok" /\ rlog[u][k].result = TRUE
     /\ rlog[u][k].t = rlog[u][k].texec
     /\ t - window < rlog[u][k].t /\ rlog[u][k].t <= t}

\* C9: under any interleaving of is_allowed calls for one user, at most
\* `limit` calls with a timestamp in a trailing window (t - window, t] returned
\* true. (That the four commands of a pipeline run as one unit is how
\* ExecPipeline is written, after redis-py's transactional pipeline.)
C9_AdmittedRateBounded ==
  \A u \in Users : \A t \in 0..MaxTime : Cardinality(AdmittedIn(u, t)) <= limit


\* -------------------------------------------------------- session manager
\* The messages of a history, and the messages of the first n operations of u.
MessagesOf(h) == [i \in 1..Len(h) |-> h[i].message]
ArgsOf(u, n) == [i \in 1..n |-> slog[u][i].arg]

\* The operations i..j of slog[u] ran one after another, with no other caller
\* on the user and no store failure, and redis.get ran in each.
Undisturbed(u, i, j) ==
  \A k \in i..j : slog[u][k].alone /\ ~slog[u][k].sfail /\ slog[u][k].tget # -1

\* C4: after N add_message calls made one after another for a user who had no
\* session, with no expiry in between, get_message_history with the default
\* limit returns the last min(N, 5) messages added, in the order added.
C4_HistoryIsLastFive ==
  \A u \in Users : \A n \in 1..(Len(slog[u]) - 1) :
    (/\ \A i \in 1..n : slog[u][i].op = "add_message"
     /\ slog[u][n + 1].op = "get_message_history"
     /\ slog[u][n + 1].limit = DefaultHistoryLimit
     /\ Undisturbed(u, 1, n + 1)
     /\ ~slog[u][1].found
     /\ slog[u][n + 1].tget - slog[u][1].tget < SESSION_TTL)
    => /\ slog[u][n + 1].kind = "ok"
       /\ slog[u][n + 1].hist_t = "list"
       /\ MessagesOf(slog[u][n + 1].hist) = LastN(ArgsOf(u, n), HistoryCap)

\* A session with its four fields, as save_session writes it.
WellFormed(v) ==
  v.t = "obj" /\ v.hist_t = "list" /\ v.stage # "" /\ v.created_at # -1 /\ v.last_activity # -1

\* No caller is inside a session operation on user u.
Quiet(u) == \A p \in Procs : ~InSession(p, u)

\* C5: get_session for a user with no stored session returns a session with
\* stage "idle" and an empty history, and the session is stored; the next
\* get_session for the user returns the same created_at and a last_activity
\* that is not smaller.
C5_FirstGetCreatesSession ==
  \A u \in Users : \A k \in 1..Len(slog[u]) :
    (/\ slog[u][k].op = "get_session"
     /\ Undisturbed(u, k, k)
     /\ ~slog[u][k].found)
    => /\ slog[u][k].kind = "ok"
       /\ slog[u][k].session.stage = "idle"
       /\ slog[u][k].session.hist_t = "list"
       /\ slog[u][k].session.message_history = <<>>
       /\ (k = Len(slog[u]) /\ Quiet(u) /\ now < slog[u][k].tget + SESSION_TTL)
            => sess[u].t = "obj"
       /\ (/\ k < Len(slog[u])
           /\ slog[u][k + 1].op = "get_session"
           /\ Undisturbed(u, k + 1, k + 1)
           /\ slog[u][k + 1].tget - slog[u][k].tget < SESSION_TTL)
            => /\ slog[u][k + 1].kind = "ok"
               /\ slog[u][k + 1].session.created_at = slog[u][k].session.created_at
               /\ slog[u][k + 1].session.last_activity >= slog[u][k].session.last_activity

\* C6: set_stage(user, s) on a stored session, followed by get_session(user)
\* with nothing else on the user and no expiry in between (get_session finds
\* the key): the session returned has stage s and the message_history and created_at that were
\* stored before.
C6_SetStageThenGet ==
  \A u \in Users : \A k \in 1..(Len(slog[u]) - 1) :
    (/\ slog[u][k].op = "set_stage"
     /\ slog[u][k + 1].op = "get_session"
     /\ Undisturbed(u, k, k + 1)
     /\ slog[u][k].found
     /\ WellFormed(slog[u][k].loaded)
     /\ slog[u][k + 1].found)
    => /\ slog[u][k + 1].kind = "ok"
       /\ slog[u][k + 1].session.stage = slog[u][k].arg
       /\ slog[u][k + 1].session.message_history = slog[u][k].loaded.message_history
       /\ slog[u][k + 1].session.created_at = slog[u][k].loaded.created_at

\* C7: every access to a session resets the key's time to live to SESSION_TTL
\* from that access, so that a session read at time t is still stored at every
\* time before t + SESSION_TTL.
C7_ReadKeepsSessionAlive ==
  \A u \in Users : \A k \in 1..Len(slog[u]) :
    (/\ slog[u][k].op \in {"get_session", "get_message_history"}
     /\ slog[u][k].found
     /\ ~slog[u][k].sfail
     /\ WellFormed(slog[u][k].loaded)
     /\ now < slog[u][k].tget + SESSION_TTL)
    => sess[u].t # "absent"

\* C8: get_message_history never raises, whatever the user, the limit and the
\* store do: it returns a sequence, and the empty one when a step of it
\* failed (the store call, the parsing, the default session) and left it
\* without a session object.
C8_HistoryNeverFails ==
  \A u \in Users : \A k \in 1..Len(slog[u]) :
    slog[u][k].op = "get_message_history"
    => /\ slog[u][k].kind = "ok"
       /\ slog[u][k].hist_t = "list"
       /\ slog[u][k].loaded.t # "obj" => slog[u][k].hist = <<>>

\* C10: the message_history of every stored session has at most 5 entries.
C10_StoredHistoryCapped ==
  \A u \in Users :
    (sess[u].t = "obj" /\ sess[u].hist_t = "list")
    => Len(sess[u].message_history) <= HistoryCap

\* ---------------------------------------------------------------- webhook
\* C11: POST /webhook answers every delivery with the success-shaped
\* acknowledgment, also when the body was malformed or the handling of a
\* message raised (a failed send, a failed text-generation call).
C11_AlwaysAcknowledged ==
  \A i \in 1..Len(responses) : responses[i] = OkResponse

\* An admission check for user u has run and returned true.
Admitted(u) == \E k \in 1..Len(rlog[u]) : rlog[u][k].kind = "ok" /\ rlog[u][k].result
\* The session manager has read the session of user u.
SessionRead(u) == \E k \in 1..Len(slog[u]) : slog[u][k].tget # -1

\* C12: a message of a delivery is handled (the handler touched the sender's
\* conversation state, a reply went out to the sender) only after an admission
\* check for the sender has returned true and the sender's session was read.
C12_GateBeforeHandling ==
  /\ \A u \in Users : State[u] # NoState => Admitted(u) /\ SessionRead(u)
  /\ \A i \in 1..Len(outbox) : Admitted(outbox[i].to) /\ SessionRead(outbox[i].to)

\* ------------------------------------------------- rate limiter, continued
\* The step is the end of an is_allowed call for user u.
Returned(u) == Len(rlog'[u]) = Len(rlog[u]) + 1
\* The call that ends in the step, as its caller saw it.
Call(u) == rlog'[u][Len(rlog'[u])]
\* The process whose call ends in the step.
Caller(p, u) == pc[p] = "pipeline" /\ frame[p].uid = u /\ pc'[p] # pc[p]

\* C13: when the store fails during an is_allowed call, the call ends with
\* the error: it gives its caller no verdict, nothing is tried again (the
\* caller is back with the error in the same step and the call is logged
\* once), and neither the denial counters nor the rate windows change.
C13_StoreFailurePropagates ==
  [][\A u \in Users :
       (Returned(u) /\ Call(u).kind = "raise")
       => /\ denied' = denied
          /\ rate' = rate /\ rateExp' = rateExp
          /\ \A p \in Procs : Caller(p, u) => pc'[p] = "idle"]_vars

\* C13's case: the store failed during a call made on a window that held an
\* entry, after a call of the user was denied.
C13_Witness ==
  \E u \in Users : \E k \in 2..Len(rlog[u]) :
    /\ rlog[u][k].kind = "raise"
    /\ rlog[u][k].pre > 0
    /\ denied[u] > 0

\* The entries of a rate window that a call reading the clock at t counts
\* when the entry scored exactly t - window is kept, and when it is not.
FromWindowStart(zset, t) == {e \in zset : e.score >= t - window}
AfterWindowStart(zset, t) == {e \in zset : e.score > t - window}

\* C14 as claimed: an is_allowed call that read the clock at t removes exactly
\* the entries with score < t - window before it counts; an entry scored
\* exactly t - window is kept and counted.
C14_PruneBelowWindowStart ==
  [][\A u \in Users :
       (Returned(u) /\ Call(u).kind = "ok")
       => Call(u).count = Cardinality(FromWindowStart(rate[u], Call(u).t))]_vars

\* C14 as the code has it: the call removes exactly the entries with
\* score <= t - window before it counts; an entry scored exactly t - window is
\* removed and not counted, and every later entry is counted and kept.
C14_PruneThroughWindowStart ==
  [][\A u \in Users :
       (Returned(u) /\ Call(u).kind = "ok")
       => /\ Call(u).count = Cardinality(AfterWindowStart(rate[u], Call(u).t))
          /\ \A e \in rate'[u] : e.score > Call(u).t - window
          /\ \A e \in AfterWindowStart(rate[u], Call(u).t) :
               e.member # Member(Call(u).t) => e \in rate'[u]]_vars

\* C14's case: a call found in the window one entry, scored exactly `window`
\* seconds before the call, and counted none.
C14_Witness ==
  \E u \in Users : \E k \in 2..Len(rlog[u]) :
    /\ rlog[u][k].kind = "ok" /\ rlog[u][k - 1].kind = "ok"
    /\ rlog[u][k - 1].t = rlog[u][k].t - window
    /\ rlog[u][k - 1].texec < rlog[u][k].texec
    /\ rlog[u][k].pre = 1
    /\ rlog[u][k].count = 0

\* The first n calls of user u ran at the instant they read the clock, one
\* every second, the first of them on an empty window.
Paced(u, n) ==
  /\ n <= Len(rlog[u])
  /\ rlog[u][1].pre = 0
  /\ \A k \in 1..n : /\ rlog[u][k].kind = "ok"
                     /\ rlog[u][k].t = rlog[u][k].texec
                     /\ rlog[u][k].t = rlog[u][1].t + (k - 1)

\* The verdicts of a user who calls once every second, for limit < window.
PacedVerdicts ==
  \A u \in Users : \A n \in 1..Len(rlog[u]) :
    (limit < window /\ Paced(u, n)) => rlog[u][n].result = (n <= limit)

\* C15: for limit < window, a user who starts on an empty window and calls
\* is_allowed once every second is admitted on the first `limit` calls and
\* denied on every later one; every call that ran, admitted or denied, leaves
\* an entry scored with its clock value in the user's window and sets the
\* key's expiry to `window` seconds from then.
C15_DeniedCallsAreRecorded ==
  [][/\ PacedVerdicts'
     /\ \A u \in Users :
          (Returned(u) /\ Call(u).kind = "ok")
          => /\ \E e \in rate'[u] : e.score = Call(u).t
             /\ rateExp'[u] = Call(u).texec + window]_vars

\* C15's case: limit < window, and a user calling every second was admitted
\* once and then denied twice, the second time on the entry a denied call left.
C15_Witness ==
  \E u \in Users :
    /\ limit = 1 /\ window = 2
    /\ Paced(u, 3)
    /\ rlog[u][1].result /\ ~rlog[u][2].result /\ ~rlog[u][3].result
    /\ rlog[u][3].count = 1

\* The calls of user u that returned false.
Denials(u) == {k \in 1..Len(rlog[u]) : rlog[u][k].kind = "ok" /\ ~rlog[u][k].result}

\* C16: is_allowed returns false exactly when the entries left in the window
\* after the pruning, the new entry not yet added, number `limit` or more, and
\* exactly then the caller's user's denial counter goes up by one and no
\* other counter changes; every user's denial counter is the number of the
\* user's calls that returned false.
C16_DenialsCounted ==
  [][/\ \A u \in Users : denied'[u] = Cardinality(Denials(u)')
     /\ \A u \in Users :
          (Returned(u) /\ Call(u).kind = "ok")
          => /\ ~Call(u).result
                  <=> Cardinality(AfterWindowStart(rate[u], Call(u).t)) >= limit
             /\ denied'[u] = denied[u] + (IF Call(u).result THEN 0 ELSE 1)
             /\ \A v \in Users \ {u} : denied'[v] = denied[v]]_vars

\* C16's case: a user was denied twice and admitted once while another user
\* was never denied.
C16_Witness ==
  \E u \in Users, v \in Users :
    /\ u # v
    /\ denied[u] = 2 /\ Cardinality(Denials(u)) = 2 /\ Len(rlog[u]) = 3
    /\ denied[v] = 0

\* ---------------------------------------------- session manager, continued
Writers == {"add_message", "set_stage"}

\* The session as the update of the operation e alone leaves it, the
\* timestamps aside: its stage and the messages of its history.
UpdatedBy(e) ==
  IF e.op = "add_message"
  THEN [stage |-> e.loaded.stage,
        messages |-> MessagesOf(Truncate(Append(e.loaded.message_history, Record(0, e.arg))))]
  ELSE [stage |-> e.arg, messages |-> MessagesOf(e.loaded.message_history)]

\* Two updates of user u, ended as the k-th and (k+1)-th operation, ran
\* concurrently on the same stored session: each read it before the other
\* saved, and the store did not fail.
Racing(u, k) ==
  /\ k + 1 <= Len(slog[u])
  /\ slog[u][k].op \in Writers /\ slog[u][k + 1].op \in Writers
  /\ "add_message" \in {slog[u][k].op, slog[u][k + 1].op}
  /\ ~slog[u][k].alone /\ ~slog[u][k + 1].alone
  /\ ~slog[u][k].sfail /\ ~slog[u][k + 1].sfail
  /\ slog[u][k].found /\ slog[u][k + 1].found
  /\ WellFormed(slog[u][k].loaded)
  /\ slog[u][k].loaded = slog[u][k + 1].loaded

\* C17: two concurrent updates of one user's session (two add_message calls,
\* or an add_message and a set_stage) that both read the session before either
\* saved both complete without an error, and the session then stored is the
\* one that one of the two left: the other update is gone.
C17_LastWriteWins ==
  \A u \in Users : \A k \in 1..Len(slog[u]) :
    Racing(u, k)
    => /\ slog[u][k].kind = "ok" /\ slog[u][k + 1].kind = "ok"
       /\ (k + 1 = Len(slog[u]) /\ Quiet(u) /\ sess[u].t = "obj")
            => [stage |-> sess[u].stage, messages |-> MessagesOf(sess[u].message_history)]
                 \in {UpdatedBy(slog[u][k]), UpdatedBy(slog[u][k + 1])}

Ended(u) == Len(slog'[u]) = Len(slog[u]) + 1
\* The operation that ends in the step, as its caller saw it.
Op(u) == slog'[u][Len(slog'[u])]

\* C19: when a session operation that read a stored session and met no store
\* failure ends and leaves no session operation in progress, the gauge is the
\* number of session keys in the store (no key has expired since, the
\* operation ending in this very step), also when gauge refreshes raced.
C19_GaugeConverges ==
  [][\A u \in Users :
       (/\ Ended(u)
        /\ \A p \in Procs : pc'[p] = "idle"
        /\ Op(u).kind = "ok" /\ Op(u).found /\ ~Op(u).sfail
        /\ WellFormed(Op(u).loaded))
       => gauge' = SessionKeys(sess')]_vars

\* -------------------------------------------------------------- isolation
\* Process p takes the step, and the operation it is in.
Acting(p) == pc'[p] # pc[p]
Running(p) == IF pc[p] = "idle" THEN frame'[p] ELSE frame[p]

\* C20: a step of an is_allowed call for user u changes no session key and no
\* rate window but that of u; a step of get_session, add_message, set_stage or
\* get_message_history (save_session within them) for user u changes no rate
\* window and no session key but that of u.
C20_Isolated ==
  [][\A p \in Procs :
       Acting(p)
       => /\ Running(p).op = "is_allowed"
               => /\ sess' = sess /\ sessExp' = sessExp
                  /\ \A v \in Users \ {Running(p).uid} :
                       rate'[v] = rate[v] /\ rateExp'[v] = rateExp[v]
          /\ Running(p).op \in SessionOps
               => /\ rate' = rate /\ rateExp' = rateExp
                  /\ \A v \in Users \ {Running(p).uid} :
                       sess'[v] = sess[v] /\ sessExp'[v] = sessExp[v]]_vars

\* C20's case: an is_allowed call ran for one user and a session operation on
\* the stored session of another, and each user has only the key of its own
\* component.
C20_Witness ==
  /\ Len(rlog["u2"]) > 0 /\ rlog["u2"][1].kind = "ok"
  /\ rate["u2"] # {} /\ rate["u1"] = {}
  /\ Len(slog["u1"]) > 0 /\ slog["u1"][1].found /\ ~slog["u1"][1].sfail
  /\ sess["u1"].t = "obj" /\ sess["u2"].t = "absent"

\* ------------------------------------------------------ stored timestamps
\* The time of the most recent save of the session stored for user u: SETEX
\* is the only command that sets the key's time to live, to SESSION_TTL.
LastSave(u) == sessExp[u] - SESSION_TTL

\* C21: every session in the store has last_activity >= created_at, and its
\* last_activity is the time of its most recent save.
C21_LastActivityIsLastSave ==
  \A u \in Users :
    WellFormed(sess[u])
    => /\ sess[u].last_activity >= sess[u].created_at
       /\ sess[u].last_activity = LastSave(u)

\* ------------------------------------------------------ size of the window
\* The window holds at most one entry for a second.
OnePerSecond(zset) ==
  \A e \in zset : \A x \in zset : (e.score = x.score \/ e.member = x.member) => e = x

\* C22 as claimed: under any interleaving of is_allowed calls, the rate window
\* of a user holds at most one entry per second and, a call having completed,
\* at most `window` entries.
C22_WindowBounded ==
  \A u \in Users : OnePerSecond(rate[u]) /\ Cardinality(rate[u]) <= window

\* C22 as the code has it: the window holds at most one entry per second;
\* after a call that read the clock at t every entry is scored above
\* t - window; and a call that ran its pipeline in the second in which it read
\* the clock leaves at most `window` entries. (A call delayed past that second
\* leaves the entries of later seconds next to its own.)
C22_WindowBoundedForPromptCalls ==
  [][\A u \in Users :
       (Returned(u) /\ Call(u).kind = "ok")
       => /\ OnePerSecond(rate'[u])
          /\ \A e \in rate'[u] : e.score > Call(u).t - window
          /\ Call(u).t = Call(u).texec => Cardinality(rate'[u]) <= window]_vars

\* C22's case: a call that ran in the second it read the clock found a full
\* window, a call of that very second among its entries, and left a full one.
C22_Witness ==
  \E u \in Users : \E k \in 2..Len(rlog[u]) :
    /\ k = Len(rlog[u])
    /\ rlog[u][k].kind = "ok" /\ rlog[u][k].t = rlog[u][k].texec
    /\ rlog[u][k - 1].kind = "ok" /\ rlog[u][k - 1].t = rlog[u][k].t
    /\ rlog[u][k].pre = window
    /\ Cardinality(rate[u]) = window

====
